---- MODULE Spec2Model ----
(***************************************************************************)
(* A model of src/core/BaseService.ts: the channel registry (sseClients),  *)
(* the SSE broadcast engine and the generic CRUD operations that trigger   *)
(* it.  The SSE methods are synchronous.  A CRUD method suspends only at   *)
(* its store call and touches the registry after it, without suspending    *)
(* again, so each method is one atomic action, taken when the store call   *)
(* settles.  The record of a call (call, before, written, emitted,         *)
(* outcome) lasts until the call's Return step.                            *)
(***************************************************************************)
EXTENDS Integers, Sequences, FiniteSets, TLC

\* ------------------------------------------------------------------ bounds
\* How many addSSEClient calls a behaviour may make.
MaxSubscribes == 3
\* How many addSSEClient calls a behaviour of the CRUD specification may make.
MaxCrudSubscribes == 2

\* The largest options.maxPageSize configured; pages and limits are asked
\* for from -1 up to two above it.
MaxPageSizeBound == 3
\* How many keys a query object handed to applyFilters holds.
MaxQueryKeys == 2
\* How many modules are registered with the application.
MaxModules == 3

\* The ids the table's sequence hands out, and the ids a caller asks for.
TableIds == {1}
RowIds == {1, 2}

Handles == {"h1", "h2"}
Channels == {"orders", "*"}
EventTypes == {"created"}
\* Payloads handed to broadcastToChannel by a caller: {id:5} and {id:5n}, an
\* object holding a BigInt.
PayloadIds == {"id5", "big5"}

\* ------------------------------------------------------------------ state
VARIABLES
    enableSSE,      \* options.enableSSE, fixed by the constructor
    enableSoftDelete, \* options.enableSoftDelete, fixed by the constructor
    store,          \* the model's table: a function from the ids present to rows
    nextId,         \* the id the table's SERIAL sequence hands out next
    outcome,        \* what the last operation returned or threw
    sseClients,     \* Map<string, Response[]>: a function on the keys present
    listeners,      \* close/error listener pairs registered per (channel, client)
    conn,           \* each Response's connection state
    call,           \* the operation that ran last and its inputs
    before,         \* sseClients when that operation started
    written,        \* the chunks that operation wrote to each Response
    emitted,        \* the broadcastToChannel calls that operation made
    defaultPageSize, \* options.defaultPageSize, fixed by the constructor
    maxPageSize,    \* options.maxPageSize, fixed by the constructor
    pending,        \* the findMany call whose second query is still in flight
    modules,        \* IgnitorApp.modules: the registered modules, in order
    runs,           \* the calls of IgnitorApp.shutdown() and where each stands
    process         \* the Node process: signal listeners, server, timer, exit

vars == <<enableSSE, enableSoftDelete, store, nextId, outcome,
          sseClients, listeners, conn, call, before, written, emitted,
          defaultPageSize, maxPageSize, pending, modules, runs, process>>

\* "open": writable; "ended": writableEnded; "destroyed": destroyed, its
\* 'close' event still pending; "closed": destroyed and 'close' emitted.
ConnStates == {"open", "ended", "destroyed", "closed"}

destroyed(c, client) == c[client] \in {"destroyed", "closed"}

writableEnded(c, client) == c[client] = "ended"

\* ------------------------------------------------------------- JS helpers
\* Array.prototype.indexOf: the first index (0-based) holding x, or -1.
IndexOf(s, x) ==
    IF \E i \in 1..Len(s) : s[i] = x
    THEN (CHOOSE i \in 1..Len(s) : s[i] = x /\ \A j \in 1..(i - 1) : s[j] # x) - 1
    ELSE -1

\* Array.prototype.splice(index, 1) on a 0-based index.
Splice(s, index) == SubSeq(s, 1, index) \o SubSeq(s, index + 2, Len(s))

\* this.sseClients.get(channel) || []
MapGet(m, channel) == IF channel \in DOMAIN m THEN m[channel] ELSE <<>>

MapSet(m, channel, v) == [k \in DOMAIN m \cup {channel} |-> IF k = channel THEN v ELSE m[k]]

MapDelete(m, channel) == [k \in DOMAIN m \ {channel} |-> m[k]]

EmptyMap == [k \in {} |-> <<>>]

Count(s, x) == Cardinality({i \in 1..Len(s) : s[i] = x})

\* ------------------------------------------------------------- JSON
\* JS values are tagged tuples: <<"num", n>>, <<"str", s>>, <<"bool", b>>,
\* <<"null">>, <<"undefined">>, <<"bigint", n>>, <<"obj", <<k1, v1>>, ...>>.
Num(n) == <<"num", n>>

Str(s) == <<"str", s>>

BigIntValue(n) == <<"bigint", n>>

Obj(fields) == <<"obj", fields>>

\* JSON.stringify: [ok |-> TRUE, s |-> text], or ok = FALSE where it throws
\* a TypeError (a BigInt anywhere in the value).  Properties whose value is
\* undefined are left out.
RECURSIVE JSONstringify(_)
RECURSIVE JSONfields(_, _, _)
JSONfields(fields, i, first) ==
    IF i > Len(fields) THEN [s |-> "", ok |-> TRUE]
    ELSE IF fields[i][2][1] = "undefined" THEN JSONfields(fields, i + 1, first)
    ELSE LET head == JSONstringify(fields[i][2])
             tail == JSONfields(fields, i + 1, FALSE)
         IN  IF ~head.ok \/ ~tail.ok THEN [s |-> "", ok |-> FALSE]
             ELSE [s |-> (IF first THEN "" ELSE ",") \o "\"" \o fields[i][1] \o "\":"
                         \o head.s \o tail.s,
                   ok |-> TRUE]

JSONstringify(v) ==
    CASE v[1] = "num" -> [s |-> ToString(v[2]), ok |-> TRUE]
      [] v[1] = "str" -> [s |-> "\"" \o v[2] \o "\"", ok |-> TRUE]
      [] v[1] = "bool" -> [s |-> IF v[2] THEN "true" ELSE "false", ok |-> TRUE]
      [] v[1] = "null" -> [s |-> "null", ok |-> TRUE]
      [] v[1] = "bigint" -> [s |-> "", ok |-> FALSE]
      [] v[1] = "obj" -> LET body == JSONfields(v[2], 1, TRUE)
                         IN  IF body.ok THEN [s |-> "{" \o body.s \o "}", ok |-> TRUE]
                             ELSE body

PayloadValue(id) ==
    CASE id = "id5" -> Obj(<< <<"id", Num(5)>> >>)
      [] id = "big5" -> Obj(<< <<"id", BigIntValue(5)>> >>)

\* ------------------------------------------------------------- registry
\* removeSSEClient without its delete of an emptied channel.
removeSSEClientKeepsEmpty(m, channel, client) ==
    IF ~enableSSE THEN m
    ELSE LET clients == MapGet(m, channel)
             index == IndexOf(clients, client)
         IN  IF index > -1 THEN MapSet(m, channel, Splice(clients, index)) ELSE m

\* removeSSEClient without its index > -1 test: splice(-1, 1) takes the
\* last client out of the array.
removeSSEClientUnchecked(m, channel, client) ==
    IF ~enableSSE THEN m
    ELSE LET clients == MapGet(m, channel)
             index == IndexOf(clients, client)
             spliced == IF index > -1 THEN Splice(clients, index)
                        ELSE SubSeq(clients, 1, Len(clients) - 1)
         IN  IF Len(spliced) = 0 THEN MapDelete(m, channel)
             ELSE MapSet(m, channel, spliced)

\* removeSSEClient(channel, client) as a function of the map.
removeSSEClient(m, channel, client) ==
    IF ~enableSSE THEN m
    ELSE LET clients == MapGet(m, channel)
             index == IndexOf(clients, client)
         IN  IF index > -1
             THEN LET spliced == Splice(clients, index)
                  IN  IF Len(spliced) = 0 THEN MapDelete(m, channel)
                      ELSE MapSet(m, channel, spliced)
             ELSE m

\* deadClients.forEach(deadClient => this.removeSSEClient(channel, deadClient))
RECURSIVE removeEach(_, _, _)
removeEach(m, channel, deadClients) ==
    IF deadClients = <<>> THEN m
    ELSE removeEach(removeSSEClient(m, channel, Head(deadClients)), channel, Tail(deadClients))

getChannelClientCount(m, channel) == Len(MapGet(m, channel))

getActiveChannels(m) == DOMAIN m

\* ------------------------------------------------------------- broadcast
\* failAt[client]: 0 when the client's writes succeed, 1 when its first
\* write (the event line) throws, 2 when its second write (the data line)
\* throws.  A write that throws delivers nothing.
NoFail == [h \in Handles |-> 0]

\* tryWrite with the data line written a second time.
tryWriteTwice(out, client, eventType, data, failAt) ==
    IF failAt[client] = 1 THEN [out |-> out, threw |-> TRUE]
    ELSE LET out1 == [out EXCEPT ![client] = Append(@, "event: " \o eventType \o "\n")]
             json == JSONstringify(data)
         IN  IF ~json.ok \/ failAt[client] = 2
             THEN [out |-> out1, threw |-> TRUE]
             ELSE [out |-> [out1 EXCEPT ![client] =
                               Append(Append(@, "data: " \o json.s \o "\n\n"),
                                      "data: " \o json.s \o "\n\n")],
                   threw |-> FALSE]

\* The try block of broadcastToChannel for one client that passed the
\* destroyed/writableEnded test: the chunks written and whether it threw.
tryWrite(out, client, eventType, data, failAt) ==
    IF failAt[client] = 1 THEN [out |-> out, threw |-> TRUE]
    ELSE LET out1 == [out EXCEPT ![client] = Append(@, "event: " \o eventType \o "\n")]
             json == JSONstringify(data)
         IN  IF ~json.ok \/ failAt[client] = 2
             THEN [out |-> out1, threw |-> TRUE]
             ELSE [out |-> [out1 EXCEPT ![client] = Append(@, "data: " \o json.s \o "\n\n")],
                   threw |-> FALSE]

\* clients.forEach(client => ...) of broadcastToChannel, from index i on;
\* acc = [out, dead] holds the chunks written and deadClients so far.
RECURSIVE forEachClient(_, _, _, _, _, _)
forEachClient(clients, i, acc, eventType, data, failAt) ==
    IF i > Len(clients) THEN acc
    ELSE LET client == clients[i]
         IN  IF destroyed(conn, client) \/ writableEnded(conn, client)
             THEN forEachClient(clients, i + 1,
                                [acc EXCEPT !.dead = Append(@, client)],
                                eventType, data, failAt)
             ELSE LET w == tryWrite(acc.out, client, eventType, data, failAt)
                  IN  forEachClient(clients, i + 1,
                                    [out |-> w.out,
                                     dead |-> IF w.threw THEN Append(acc.dead, client)
                                              ELSE acc.dead],
                                    eventType, data, failAt)

\* broadcastToChannel on a run state st = [m, out, em]: the map, the chunks
\* written to each client and the channels an event was emitted to.
broadcastToChannel(st, channel, eventType, data, failAt) ==
    IF ~enableSSE THEN st
    ELSE LET clients == MapGet(st.m, channel)
             r == forEachClient(clients, 1, [out |-> st.out, dead |-> <<>>],
                                eventType, data, failAt)
         IN  [m |-> removeEach(st.m, channel, r.dead),
              out |-> r.out,
              em |-> Append(st.em, <<channel, eventType>>)]

\* channels.forEach(channel => this.broadcastToChannel(channel, eventType, data))
RECURSIVE broadcastToChannels(_, _, _, _, _)
broadcastToChannels(st, channels, eventType, data, failAt) ==
    IF channels = <<>> THEN st
    ELSE broadcastToChannels(broadcastToChannel(st, Head(channels), eventType, data, failAt),
                             Tail(channels), eventType, data, failAt)

\* ------------------------------------------------------------- sweep
\* deadClients.forEach(...) of cleanupDeadConnections: splice the first
\* occurrence of each dead client out of the channel's own array.
\* The removal loop of cleanupDeadConnections stopping after one client.
spliceEachFirstOnly(clients, deadClients) ==
    IF deadClients = <<>> THEN clients
    ELSE Splice(clients, IndexOf(clients, Head(deadClients)))

RECURSIVE spliceEach(_, _)
spliceEach(clients, deadClients) ==
    IF deadClients = <<>> THEN clients
    ELSE LET index == IndexOf(clients, Head(deadClients))
         IN  spliceEach(IF index > -1 THEN Splice(clients, index) ELSE clients,
                        Tail(deadClients))

cleanupDeadConnections(m) ==
    IF ~enableSSE THEN m
    ELSE LET isDead(client) == destroyed(conn, client) \/ writableEnded(conn, client)
             swept == [ch \in DOMAIN m |-> spliceEach(m[ch], SelectSeq(m[ch], isDead))]
             channelsToDelete == {ch \in DOMAIN m : Len(swept[ch]) = 0}
         IN  [ch \in DOMAIN m \ channelsToDelete |-> swept[ch]]

\* ------------------------------------------------------------- listeners
ChannelSeq == <<"orders", "*">>

\* One close (or error) listener of addSSEClient per registration call:
\* each runs removeSSEClient(channel, client).
\* runListeners with one listener run however many were registered.
runListenersOnce(m, channel, client, n) ==
    IF n = 0 THEN m ELSE removeSSEClient(m, channel, client)

RECURSIVE runListeners(_, _, _, _)
runListeners(m, channel, client, n) ==
    IF n = 0 THEN m
    ELSE runListeners(removeSSEClient(m, channel, client), channel, client, n - 1)

RECURSIVE emitToListeners(_, _, _)
emitToListeners(m, client, i) ==
    IF i > Len(ChannelSeq) THEN m
    ELSE emitToListeners(runListeners(m, ChannelSeq[i], client, listeners[ChannelSeq[i]][client]),
                         client, i + 1)

\* ------------------------------------------------------------- store
\* The Prisma model delegate (getModel()) over one table.  A row's views
\* column, when the model has one, is a BigInt; 0 stands for no such column.
modelName == "Test"

NoRow == [id |-> 0, email |-> "", views |-> 0, isDeleted |-> FALSE, deletedAt |-> ""]

Now == "2026-01-01T00:00:00.000Z"

\* The record as the JS object Prisma returns.
RowValue(row) ==
    Obj(<< <<"id", Num(row.id)>>,
           <<"email", Str(row.email)>>,
           <<"views", IF row.views = 0 THEN <<"undefined">> ELSE BigIntValue(row.views)>>,
           <<"deletedAt", IF ~enableSoftDelete THEN <<"undefined">>
                          ELSE IF row.deletedAt = "" THEN <<"null">> ELSE Str(row.deletedAt)>>,
           <<"isDeleted", IF ~enableSoftDelete THEN <<"undefined">>
                          ELSE <<"bool", row.isDeleted>> >> >>)

\* The error a rejected store call carries: error.code is a Prisma code.
PrismaError(code) == [code |-> code, name |-> "PrismaClientKnownRequestError", message |-> "prisma"]

NoError == [code |-> "", name |-> "", message |-> ""]

\* ../errors/AppError: the domain errors.  Their code is no Prisma code.
NotFoundError(message) == [code |-> "NOT_FOUND", name |-> "NotFoundError", message |-> message]

DatabaseError(message) == [code |-> "DATABASE_ERROR", name |-> "DatabaseError", message |-> message]

\* A store call's answer: [ok, row, error, code, store, nextId]; code keeps
\* the code the store rejected the call with.  fail is the code of a failure
\* of the call itself (the connection is lost), "" for none.
Rejected(s, nid, code) ==
    [store |-> s, nextId |-> nid, ok |-> FALSE, row |-> NoRow,
     code |-> code, error |-> PrismaError(code)]

Resolved(s, nid, row) ==
    [store |-> s, nextId |-> nid, ok |-> TRUE, row |-> row, code |-> "", error |-> NoError]

\* getModel().create({data})
prismaCreate(s, nid, data, fail) ==
    IF fail # "" THEN Rejected(s, nid, fail)
    ELSE LET row == [id |-> nid, email |-> data.email, views |-> data.views,
                     isDeleted |-> FALSE, deletedAt |-> ""]
         IN  Resolved(MapSet(s, nid, row), nid + 1, row)

\* getModel().update({where: {id}, data}): P2025 when no row has the id.
prismaUpdate(s, nid, id, data, fail) ==
    IF fail # "" THEN Rejected(s, nid, fail)
    ELSE IF id \notin DOMAIN s THEN Rejected(s, nid, "P2025")
    ELSE LET row == [f \in DOMAIN s[id] |-> IF f \in DOMAIN data THEN data[f] ELSE s[id][f]]
         IN  Resolved(MapSet(s, id, row), nid, row)

\* getModel().delete({where: {id}}): P2025 when no row has the id.
prismaDelete(s, nid, id, fail) ==
    IF fail # "" THEN Rejected(s, nid, fail)
    ELSE IF id \notin DOMAIN s THEN Rejected(s, nid, "P2025")
    ELSE Resolved(MapDelete(s, id), nid, s[id])

\* A where object is a conjunction of field conditions; "" stands for null
\* in the deletedAt column.
Matches(row, where) == \A f \in DOMAIN where : row[f] = where[f]

Found(s, where) == {i \in DOMAIN s : Matches(s[i], where)}

\* getModel().findFirst({where}): null when no row matches where; without
\* an orderBy the store picks which matching row it answers with.
prismaFindFirst(s, nid, where, pick, fail) ==
    IF fail # "" THEN Rejected(s, nid, fail)
    ELSE IF pick \in Found(s, where) THEN Resolved(s, nid, s[pick])
    ELSE IF Found(s, where) = {} THEN Resolved(s, nid, NoRow)
    ELSE Resolved(s, nid, s[CHOOSE i \in Found(s, where) : TRUE])

\* orderBy: {id: 'desc'}: the rows of the ids, highest id first.
RECURSIVE byIdDesc(_, _)
byIdDesc(s, ids) ==
    IF ids = {} THEN <<>>
    ELSE LET top == CHOOSE i \in ids : \A j \in ids : j <= i
         IN  <<s[top]>> \o byIdDesc(s, ids \ {top})

\* getModel().findMany({where, skip, take, orderBy}): the rows, in data.
prismaFindMany(s, where, skip, take, fail) ==
    IF fail # "" THEN [ok |-> FALSE, data |-> <<>>, code |-> fail, error |-> PrismaError(fail)]
    ELSE LET all == byIdDesc(s, Found(s, where))
             last == IF skip + take < Len(all) THEN skip + take ELSE Len(all)
         IN  [ok |-> TRUE, data |-> SubSeq(all, skip + 1, last), code |-> "", error |-> NoError]

\* getModel().count({where}): the number of matching rows, in total.
prismaCount(s, where, fail) ==
    IF fail # "" THEN [ok |-> FALSE, code |-> fail, error |-> PrismaError(fail), total |-> 0]
    ELSE [ok |-> TRUE, code |-> "", error |-> NoError, total |-> Cardinality(Found(s, where))]

\* ------------------------------------------------------------- errors
operationMessages(operation) ==
    CASE operation = "findMany" -> "Failed to retrieve test list"
      [] operation \in {"findById", "findOne"} -> "Failed to retrieve test"
      [] operation = "create" -> "Failed to create test"
      [] operation = "updateById" -> "Failed to update test"
      [] operation \in {"deleteById", "softDelete"} -> "Failed to delete test"
      [] operation = "transaction" -> "Database transaction failed"
      [] OTHER -> "Database operation failed"

\* handleDatabaseError(error, operation): the error it throws.
handleDatabaseError(error, operation) ==
    IF error.code = "P2025" THEN NotFoundError(modelName \o " not found")
    ELSE DatabaseError(operationMessages(operation))

\* ------------------------------------------------------------- CRUD
\* A CRUD operation maps a run state st = [store, nextId, m, out, em,
\* outcome] to the run state it leaves.
\* outcome.storeCode is the code the operation's store call was rejected
\* with, "" when the store carried the call out.
Returned(row) ==
    [row |-> row, error |-> NoError, kind |-> "returned", value |-> "", storeCode |-> ""]

ReturnedValue(v) ==
    [row |-> NoRow, error |-> NoError, kind |-> "returned", value |-> v, storeCode |-> ""]

Threw(error, code) ==
    [row |-> NoRow, error |-> error, kind |-> "threw", value |-> "", storeCode |-> code]

NoOutcome ==
    [row |-> NoRow, error |-> NoError, kind |-> "none", value |-> "", storeCode |-> ""]

\* options.enableAuditFields keeps the constructor's default, false.
prepareCreateData(data) == data

prepareUpdateData(data) == data

\* buildWhereClause without its deletedAt condition.
buildWhereClauseKeepsDeleted(filters) == filters

buildWhereClause(filters) ==
    IF enableSoftDelete
    THEN [f \in DOMAIN filters \cup {"deletedAt"} |->
             IF f = "deletedAt" THEN "" ELSE filters[f]]
    ELSE filters

\* {id, model: this.modelName, data: result}
EventData(id, row) ==
    Obj(<< <<"id", Num(id)>>, <<"model", Str(modelName)>>, <<"data", RowValue(row)>> >>)

Bus(st) == [m |-> st.m, out |-> st.out, em |-> st.em]

Finish(st, r, bus, result) ==
    [store |-> r.store, nextId |-> r.nextId, outcome |-> result, m |-> bus.m, out |-> bus.out,
     em |-> bus.em]

createNoWildcard(st, data, hasChannels, channels, failAt, fail) ==
    LET r == prismaCreate(st.store, st.nextId, prepareCreateData(data), fail)
    IN  IF ~r.ok THEN [st EXCEPT !.outcome = Threw(handleDatabaseError(r.error, "create"), r.code)]
        ELSE LET s1 == IF hasChannels /\ enableSSE
                       THEN broadcastToChannels(Bus(st), channels, "created",
                                                EventData(r.row.id, r.row), failAt)
                       ELSE Bus(st)
             IN  Finish(st, r, s1, Returned(r.row))

create(st, data, hasChannels, channels, failAt, fail) ==
    LET r == prismaCreate(st.store, st.nextId, prepareCreateData(data), fail)
    IN  IF ~r.ok THEN [st EXCEPT !.outcome = Threw(handleDatabaseError(r.error, "create"), r.code)]
        ELSE LET s1 == IF hasChannels /\ enableSSE
                       THEN broadcastToChannels(Bus(st), channels, "created",
                                                EventData(r.row.id, r.row), failAt)
                       ELSE Bus(st)
                 s2 == IF enableSSE
                       THEN broadcastToChannel(s1, "*", "created",
                                               EventData(r.row.id, r.row), failAt)
                       ELSE s1
             IN  Finish(st, r, s2, Returned(r.row))

updateByIdWithWildcard(st, id, data, hasChannels, channels, failAt, fail) ==
    LET r == prismaUpdate(st.store, st.nextId, id, prepareUpdateData(data), fail)
    IN  IF ~r.ok THEN [st EXCEPT !.outcome = Threw(handleDatabaseError(r.error, "updateById"), r.code)]
        ELSE LET s1 == IF hasChannels /\ enableSSE
                       THEN broadcastToChannels(Bus(st), channels, "updated",
                                                EventData(r.row.id, r.row), failAt)
                       ELSE Bus(st)
                 s2 == IF enableSSE
                       THEN broadcastToChannel(s1, "*", "updated",
                                               EventData(r.row.id, r.row), failAt)
                       ELSE s1
             IN  Finish(st, r, s2, Returned(r.row))

updateById(st, id, data, hasChannels, channels, failAt, fail) ==
    LET r == prismaUpdate(st.store, st.nextId, id, prepareUpdateData(data), fail)
    IN  IF ~r.ok THEN [st EXCEPT !.outcome = Threw(handleDatabaseError(r.error, "updateById"), r.code)]
        ELSE LET s1 == IF hasChannels /\ enableSSE
                       THEN broadcastToChannels(Bus(st), channels, "updated",
                                                EventData(r.row.id, r.row), failAt)
                       ELSE Bus(st)
             IN  Finish(st, r, s1, Returned(r.row))

\* softDelete(id): the store call's answer, its error already converted.
softDelete(s, nid, id, fail) ==
    LET r == prismaUpdate(s, nid, id, [isDeleted |-> TRUE, deletedAt |-> Now], fail)
    IN  IF r.ok THEN r
        ELSE [r EXCEPT !.error = handleDatabaseError(r.error, "softDelete")]

deleteById(st, id, hasChannels, channels, failAt, fail) ==
    LET r == IF enableSoftDelete THEN softDelete(st.store, st.nextId, id, fail)
             ELSE prismaDelete(st.store, st.nextId, id, fail)
    IN  IF ~r.ok THEN [st EXCEPT !.outcome = Threw(handleDatabaseError(r.error, "deleteById"), r.code)]
        ELSE LET s1 == IF hasChannels /\ enableSSE
                       THEN broadcastToChannels(Bus(st), channels, "deleted",
                                                EventData(id, r.row), failAt)
                       ELSE Bus(st)
             IN  Finish(st, r, s1, Returned(r.row))

findById(st, id, fail) ==
    LET r == prismaFindFirst(st.store, st.nextId, buildWhereClause([id |-> id]), id, fail)
    IN  IF ~r.ok THEN [st EXCEPT !.outcome = Threw(handleDatabaseError(r.error, "findById"), r.code)]
        ELSE [st EXCEPT !.outcome = Returned(r.row)]

\* findOne(filters): pick is the row the store answers with when several
\* rows match.
findOne(st, filters, pick, fail) ==
    LET r == prismaFindFirst(st.store, st.nextId, buildWhereClause(filters), pick, fail)
    IN  IF ~r.ok THEN [st EXCEPT !.outcome = Threw(handleDatabaseError(r.error, "findOne"), r.code)]
        ELSE [st EXCEPT !.outcome = Returned(r.row)]

exists(st, filters, fail) ==
    LET r == prismaCount(st.store, buildWhereClause(filters), fail)
    IN  IF ~r.ok THEN [st EXCEPT !.outcome = Threw(handleDatabaseError(r.error, "exists"), r.code)]
        ELSE [st EXCEPT !.outcome = ReturnedValue(r.total > 0)]

count(st, filters, fail) ==
    LET r == prismaCount(st.store, buildWhereClause(filters), fail)
    IN  IF ~r.ok THEN [st EXCEPT !.outcome = Threw(handleDatabaseError(r.error, "count"), r.code)]
        ELSE [st EXCEPT !.outcome = ReturnedValue(r.total)]

\* ------------------------------------------------------------- pagination
\* A caller's pagination: page and limit are optional, so each comes with a
\* flag saying whether it was passed.
NoPagination == [hasPage |-> FALSE, page |-> 0, hasLimit |-> FALSE, limit |-> 0]

Max(a, b) == IF a >= b THEN a ELSE b

Min(a, b) == IF a <= b THEN a ELSE b

\* x || d on numbers: d when x is not passed or is 0.
OrElse(has, x, d) == IF has /\ x # 0 THEN x ELSE d

\* Math.ceil(a / b) for b > 0.
Ceil(a, b) == -((-a) \div b)

\* normalizePagination with limit + 1 where the limit is taken.
normalizePaginationOffByOne(pagination) ==
    LET page == Max(1, OrElse(pagination.hasPage, pagination.page, 1))
        limit == Min(maxPageSize,
                     Max(1, OrElse(pagination.hasLimit, pagination.limit, defaultPageSize))) + 1
    IN  [page |-> page, limit |-> limit, offset |-> (page - 1) * limit]

normalizePagination(pagination) ==
    LET page == Max(1, OrElse(pagination.hasPage, pagination.page, 1))
        limit == Min(maxPageSize,
                     Max(1, OrElse(pagination.hasLimit, pagination.limit, defaultPageSize)))
    IN  [page |-> page, limit |-> limit, offset |-> (page - 1) * limit]

buildPaginationResult(data, total, pagination) ==
    LET totalPages == Ceil(total, pagination.limit)
    IN  [data |-> data, total |-> total, page |-> pagination.page, limit |-> pagination.limit,
         totalPages |-> totalPages,
         hasNext |-> pagination.page < totalPages,
         hasPrevious |-> pagination.page > 1]

\* findMany(filters, pagination) awaits Promise.all of two store calls that
\* are not in one transaction: each runs against the store as it is when the
\* store gets to it, and a write of another request may land between them.
\* The findMany query of findMany, against the store s.
findManyData(s, filters, pagination, fail) ==
    LET where == buildWhereClause(filters)
        finalPagination == normalizePagination(pagination)
    IN  prismaFindMany(s, where, finalPagination.offset, finalPagination.limit, fail)

\* The count query of findMany, against the store s.
findManyCount(s, filters, fail) == prismaCount(s, buildWhereClause(filters), fail)

\* findMany once both store calls have answered, with d and c.
findMany(st, d, c, pagination) ==
    IF ~d.ok THEN [st EXCEPT !.outcome = Threw(handleDatabaseError(d.error, "findMany"), d.code)]
    ELSE IF ~c.ok THEN [st EXCEPT !.outcome = Threw(handleDatabaseError(c.error, "findMany"), c.code)]
    ELSE [st EXCEPT !.outcome =
             ReturnedValue(buildPaginationResult(d.data, c.total, normalizePagination(pagination)))]

\* ------------------------------------------------------------- filters
\* Objects keep their keys in insertion order: Obj(<< <<k1, v1>>, ... >>).
Undefined == <<"undefined">>

HasField(o, k) == \E i \in 1..Len(o[2]) : o[2][i][1] = k

\* o[k] = v: in place when o has the key, appended when it has not.
SetField(o, k, v) ==
    IF HasField(o, k)
    THEN Obj([i \in 1..Len(o[2]) |-> IF o[2][i][1] = k THEN <<k, v>> ELSE o[2][i]])
    ELSE Obj(Append(o[2], <<k, v>>))

\* o[k], undefined when o has no such key.
GetField(o, k) ==
    IF HasField(o, k) THEN o[2][CHOOSE i \in 1..Len(o[2]) : o[2][i][1] = k][2]
    ELSE Undefined

\* What {...v} copies: the own properties of an object, the indexed items
\* of an array, nothing of a number, a boolean, null or undefined.
OwnProperties(v) ==
    CASE v[1] = "obj" -> v
      [] v[1] = "arr" -> Obj([i \in 1..Len(v[2]) |-> <<ToString(i - 1), v[2][i]>>])
      [] v[1] \in {"num", "bool", "null", "undefined", "bigint"} -> Obj(<<>>)

\* Object.assign-like copy of b's fields, from index i on, over a.
RECURSIVE assignFrom(_, _, _)
assignFrom(a, b, i) ==
    IF i > Len(b[2]) THEN a
    ELSE assignFrom(SetField(a, b[2][i][1], b[2][i][2]), b, i + 1)

\* {...a, ...b}
Spread(a, b) == assignFrom(assignFrom(Obj(<<>>), OwnProperties(a), 1), OwnProperties(b), 1)

\* v || {} : the falsy values of the model are 0, false, null, undefined.
Truthy(v) ==
    CASE v[1] \in {"null", "undefined"} -> FALSE
      [] v[1] \in {"num", "bigint"} -> v[2] # 0
      [] v[1] = "bool" -> v[2]
      [] v[1] \in {"obj", "arr"} -> TRUE

\* typeof v === 'object' && v !== null && !Array.isArray(v)
IsPlainObject(v) == v[1] = "obj"

\* The body of mergeFilters' loop for one key of addition.
mergeKey(current, key, value) ==
    IF IsPlainObject(value)
    THEN LET own == IF Truthy(GetField(current, key)) THEN GetField(current, key)
                    ELSE Obj(<<>>)
         IN  SetField(current, key, Spread(own, value))
    ELSE SetField(current, key, value)

\* for (const key of Object.keys(addition)) ..., from index i on.
RECURSIVE mergeFrom(_, _, _)
mergeFrom(current, addition, i) ==
    IF i > Len(addition[2]) THEN current
    ELSE mergeFrom(mergeKey(current, addition[2][i][1], addition[2][i][2]), addition, i + 1)

mergeFilters(current, addition) == mergeFrom(current, addition, 1)

\* filterMap of a service: a price range on the record's own column, an
\* age range on a relation of the record, and an equality.
FilterKeys == {"minPrice", "maxPrice", "minAge", "maxAge", "status"}

filterMap(key, value) ==
    CASE key = "minPrice" -> Obj(<< <<"price", Obj(<< <<"gte", value>> >>)>> >>)
      [] key = "maxPrice" -> Obj(<< <<"price", Obj(<< <<"lte", value>> >>)>> >>)
      [] key = "minAge" ->
            Obj(<< <<"author", Obj(<< <<"age", Obj(<< <<"gte", value>> >>)>> >>)>> >>)
      [] key = "maxAge" ->
            Obj(<< <<"author", Obj(<< <<"age", Obj(<< <<"lte", value>> >>)>> >>)>> >>)
      [] key = "status" -> Obj(<< <<"status", value>> >>)

\* Object.entries(query).forEach(...) of applyFilters, from index i on;
\* query is the sequence of the entries.
RECURSIVE applyFrom(_, _, _)
applyFrom(filters, query, i) ==
    IF i > Len(query) THEN filters
    ELSE LET key == query[i][1]
             value == query[i][2]
         IN  applyFrom(IF value # Undefined /\ key \in FilterKeys
                       THEN mergeFilters(filters, filterMap(key, value))
                       ELSE filters,
                       query, i + 1)

applyFilters(query) == applyFrom(Obj(<<>>), query, 1)

\* slugify(title, {lower: true, strict: true}) of the slugify package.
slugify(title) ==
    CASE title = "Post" -> "post"
      [] title = "Hello World!" -> "hello-world"

\* The while loop of generateUniqueSlug.
RECURSIVE nextFreeSlug(_, _, _, _)
nextFreeSlug(existingSet, baseSlug, slug, counter) ==
    IF slug \in existingSet
    THEN nextFreeSlug(existingSet, baseSlug, baseSlug \o "-" \o ToString(counter), counter + 1)
    ELSE slug

\* String.prototype.startsWith, as the store's startsWith condition.
StartsWith(s, prefix) == Len(s) >= Len(prefix) /\ SubSeq(s, 1, Len(prefix)) = prefix

\* The findMany of generateUniqueSlug without its id: {not: excludeId}.
prismaFindSlugsKeepsExcluded(rows, baseSlug, excludeId) ==
    {r.slug : r \in {x \in rows : StartsWith(x.slug, baseSlug)}}

\* getModel().findMany({where: {slug: {startsWith: baseSlug}, id: {not:
\* excludeId}}, select: {slug: true}}) over the rows of a table with a slug
\* column, as new Set(existingSlugs.map(s => s.slug)); excludeId "" is an
\* excludeId left out.
prismaFindSlugs(rows, baseSlug, excludeId) ==
    {r.slug : r \in {x \in rows : /\ StartsWith(x.slug, baseSlug)
                                  /\ (excludeId # "" => x.id # excludeId)}}

\* generateUniqueSlug(title, excludeId) over a table holding rows; the store
\* call sits in no try block, so its rejection leaves as it is.
generateUniqueSlug(st, title, excludeId, rows, fail) ==
    LET baseSlug == slugify(title)
    IN  IF fail # "" THEN [st EXCEPT !.outcome = Threw(PrismaError(fail), fail)]
        ELSE LET existingSet == prismaFindSlugs(rows, baseSlug, excludeId)
             IN  [st EXCEPT !.outcome =
                     ReturnedValue(nextFreeSlug(existingSet, baseSlug, baseSlug, 1))]

\* ------------------------------------------------------------- actions
NoWrites == [h \in Handles |-> <<>>]

\* No findMany call is between its two store calls.
NoPending ==
    [first |-> "", data |-> <<>>, total |-> 0, filters |-> EmptyMap,
     pagination |-> NoPagination, active |-> FALSE]

\* ------------------------------------------------------------- application
\* src/core/IgnitorApp.ts.  A module's onShutdown is left out ("none"), or
\* returns a promise that resolves or rejects, or throws when called.
OnShutdownKinds == {"none", "resolves", "rejects", "throws"}

Module(n, kind) == [name |-> "m" \o ToString(n), onShutdown |-> kind]

\* The calls of shutdown() that can be in progress at a time.
ShutdownRuns == {1, 2}

\* A call of shutdown(): where it stands (pc), the loop index i of the
\* module it awaits (1-based), what it did so far (log) and the modules
\* registered when it was called.
NotCalled == [i |-> 0, pc |-> "idle", log |-> <<>>, registered |-> <<>>]

NoRuns == [r \in ShutdownRuns |-> NotCalled]

\* The signals spark() listens to; the bootstrap script listens to the
\* first two.
ShutdownSignals == <<"SIGTERM", "SIGINT", "SIGUSR2">>

Signals == {ShutdownSignals[k] : k \in 1..Len(ShutdownSignals)}

\* The Node process: the listeners process.on registered per signal, in
\* order; the signal delivered; whether the callback of server.close and
\* the 30 s timer are pending; who made each call of app.shutdown(); and
\* the code of process.exit, once called.
NotStarted ==
    [handlers |-> [sig \in Signals |-> <<>>], signal |-> "", closing |-> FALSE,
     timer |-> FALSE, callers |-> <<>>, exited |-> FALSE, exitCode |-> 0]

\* process.on(signal, listener)
processOn(p, sig, listener) ==
    [p EXCEPT !.handlers[sig] = Append(@, listener)]

\* spark(): shutdownSignals.forEach(signal => process.on(signal, ...))
RECURSIVE spark(_, _)
spark(p, k) ==
    IF k > Len(ShutdownSignals) THEN p
    ELSE spark(processOn(p, ShutdownSignals[k], "spark"), k + 1)

\* bootstrap(): await app.spark(port), then its own two listeners.
bootstrap(p) ==
    processOn(processOn(spark(p, 1), "SIGTERM", "bootstrap"), "SIGINT", "bootstrap")

\* The listener spark() registered: server.close(callback) and the timer.
sparkListener(p) == [p EXCEPT !.closing = TRUE, !.timer = TRUE]

\* The code of process.exit after `await app.shutdown()` in either
\* listener: 0 when the call resolved, 1 when it threw.
exitAfter(p, run) ==
    CASE run.pc = "done" -> [p EXCEPT !.exited = TRUE, !.exitCode = 0]
      [] run.pc = "failed" -> [p EXCEPT !.exited = TRUE, !.exitCode = 1]
      [] OTHER -> p

\* The for loop of shutdown(), from index i down to its next await: the
\* await of an onShutdown() promise, or of context.shutdown() after the
\* loop.  An onShutdown that throws is caught and the loop goes on.
RECURSIVE shutdownLoop(_, _, _)
shutdownLoop(mods, i, log) ==
    IF i = 0 THEN [i |-> 0, pc |-> "context", log |-> Append(log, <<"context", "">>)]
    ELSE LET module == mods[i]
         IN  CASE module.onShutdown = "none" -> shutdownLoop(mods, i - 1, log)
               [] module.onShutdown = "throws" ->
                     shutdownLoop(mods, i - 1,
                                  log \o << <<"call", module.name>>, <<"error", module.name>> >>)
               [] OTHER -> [i |-> i, pc |-> "module",
                            log |-> Append(log, <<"call", module.name>>)]

\* shutdown(), up to its first await.
shutdown(mods) == shutdownLoop(mods, Len(mods), <<>>)

\* The awaited onShutdown() with its rejection thrown on: shutdown() ends.
onShutdownSettledRethrows(mods, run) ==
    LET module == mods[run.i]
    IN  IF module.onShutdown = "resolves"
        THEN shutdownLoop(mods, run.i - 1, Append(run.log, <<"ok", module.name>>))
        ELSE [i |-> run.i, pc |-> "failed", log |-> Append(run.log, <<"error", module.name>>)]

\* The awaited onShutdown() settles: a rejection is caught and logged, and
\* the loop goes on with the module registered before.
onShutdownSettled(mods, run) ==
    LET module == mods[run.i]
        tag == IF module.onShutdown = "resolves" THEN "ok" ELSE "error"
    IN  shutdownLoop(mods, run.i - 1, Append(run.log, <<tag, module.name>>))

\* The awaited context.shutdown() settles: Context.shutdown rethrows a
\* failed $disconnect, and shutdown() rejects with it.
contextShutdownSettled(run, ok) ==
    [i |-> 0, pc |-> IF ok THEN "done" ELSE "failed",
     log |-> Append(run.log, <<IF ok THEN "disconnected" ELSE "disconnectFailed", "">>)]

Idle(op) ==
    [client |-> "", first |-> "", id |-> 0, eventType |-> "",
     failAt |-> NoFail, channels |-> <<>>, fail |-> "", total |-> 0, filters |-> EmptyMap,
     hasChannels |-> FALSE, pagination |-> NoPagination, query |-> <<>>,
     rows |-> {}, excludeId |-> "", op |-> op, payload |-> ""]

TotalListeners ==
    listeners["orders"]["h1"] + listeners["orders"]["h2"]
    + listeners["*"]["h1"] + listeners["*"]["h2"]

\* Only a client the operation may write to can throw: a live client that
\* is registered under one of the operation's channels.
FailAts(targets) ==
    {f \in [Handles -> 0..2] :
        \A h \in Handles :
            f[h] # 0 => /\ conn[h] = "open"
                        /\ \E ch \in targets : IndexOf(MapGet(sseClients, ch), h) > -1}

Range(s) == {s[i] : i \in 1..Len(s)}

\* The channel lists a caller passes to broadcastToChannels.
ChannelLists ==
    {<<>>, <<"orders">>, <<"*">>, <<"orders", "*">>, <<"*", "orders">>, <<"orders", "orders">>}

\* broadcastChannels of a CRUD call: left out, or one of these lists.
CrudChannels ==
    {[has |-> FALSE, list |-> <<>>], [has |-> TRUE, list |-> <<"orders">>],
     [has |-> TRUE, list |-> <<"orders", "*">>]}

CreateInputs == {[email |-> "a", views |-> 0], [email |-> "b", views |-> 7]}

UpdateInputs == {[email |-> "c"]}

\* The code of a store call that fails on its own; "" when it does not.
StoreFailures == {"", "P1001"}

Titles == {"Post", "Hello World!"}

\* The rows of a table with a slug column.
SlugRow(id, slug) == [id |-> id, slug |-> slug]

CrudSlugTables ==
    {{}, {SlugRow("r1", "post")}, {SlugRow("r1", "post"), SlugRow("r2", "post-1")},
     {SlugRow("r1", "post-1")}}

SlugRowIds == {"r1", "r2", "r3"}

Slugs == {"post", "post-1", "post-2", "poster", "hello-world"}

SlugTables ==
    UNION {{ {SlugRow(id, f[id]) : id \in ids} : f \in [ids -> Slugs] } : ids \in SUBSET SlugRowIds}

Init ==
    /\ enableSSE \in BOOLEAN
    /\ enableSoftDelete = FALSE
    /\ store = EmptyMap
    /\ nextId = 1
    /\ outcome = NoOutcome
    /\ sseClients = EmptyMap
    /\ listeners = [ch \in Channels |-> [h \in Handles |-> 0]]
    /\ conn = [h \in Handles |-> "open"]
    /\ call = Idle("idle")
    /\ before = EmptyMap
    /\ written = NoWrites
    /\ emitted = <<>>
    /\ defaultPageSize = 10
    /\ maxPageSize = 1000
    /\ pending = NoPending
    /\ modules = <<>>
    /\ runs = NoRuns
    /\ process = NotStarted

\* No operation is running: the caller holds the event loop.
AtRest == call.op = "idle"

\* A change of a connection's state: no handler of the service runs.
Quiet ==
    /\ AtRest
    /\ UNCHANGED <<call, before, written, emitted, outcome>>

\* A registry operation: it writes to no client and emits nothing.
Registry(op, channel, client) ==
    /\ AtRest
    /\ call' = [Idle(op) EXCEPT !.channels = IF channel = "" THEN <<>> ELSE <<channel>>,
                                !.client = client]
    /\ before' = sseClients
    /\ written' = NoWrites
    /\ emitted' = <<>>
    /\ outcome' = NoOutcome

\* What the constructor fixed, and the application object.
Fixed == <<enableSSE, enableSoftDelete, defaultPageSize, maxPageSize, modules, runs,
           process>>

DataUnchanged == UNCHANGED <<Fixed, store, nextId, pending>>

\* The operation returns to its caller, which drops the call's record.
Return ==
    /\ ~AtRest
    /\ call' = Idle("idle")
    /\ before' = EmptyMap
    /\ written' = NoWrites
    /\ emitted' = <<>>
    /\ outcome' = NoOutcome
    /\ DataUnchanged
    /\ UNCHANGED <<sseClients, listeners, conn>>

AddSSEClient(channel, client, cap) ==
    /\ AtRest
    /\ TotalListeners < cap
    /\ IF ~enableSSE
       THEN UNCHANGED <<sseClients, listeners>>
       ELSE /\ sseClients' = MapSet(sseClients, channel, Append(MapGet(sseClients, channel), client))
            /\ listeners' = [listeners EXCEPT ![channel][client] = @ + 1]
    /\ Registry("addSSEClient", channel, client)
    /\ DataUnchanged
    /\ UNCHANGED conn

RemoveSSEClient(channel, client) ==
    /\ AtRest
    /\ sseClients' = removeSSEClient(sseClients, channel, client)
    /\ Registry("removeSSEClient", channel, client)
    /\ DataUnchanged
    /\ UNCHANGED <<listeners, conn>>

\* res.end(): writableEnded becomes true.
ConnEnd(client) ==
    /\ conn[client] = "open"
    /\ conn' = [conn EXCEPT ![client] = "ended"]
    /\ Quiet
    /\ DataUnchanged
    /\ UNCHANGED <<sseClients, listeners>>

\* The connection is destroyed; its 'close' event is emitted later.
ConnDestroy(client) ==
    /\ conn[client] \in {"open", "ended"}
    /\ conn' = [conn EXCEPT ![client] = "destroyed"]
    /\ Quiet
    /\ DataUnchanged
    /\ UNCHANGED <<sseClients, listeners>>

\* client.on('close', ...): every close listener registered on it runs.
CloseEvent(client) ==
    /\ AtRest
    /\ conn[client] = "destroyed"
    /\ conn' = [conn EXCEPT ![client] = "closed"]
    /\ sseClients' = emitToListeners(sseClients, client, 1)
    /\ Registry("close", "", client)
    /\ DataUnchanged
    /\ UNCHANGED listeners

\* client.on('error', ...): every error listener registered on it runs;
\* the failed connection may or may not be destroyed yet.
ErrorEvent(client) ==
    /\ AtRest
    /\ conn[client] \in {"open", "ended"}
    /\ \E c \in {conn[client], "destroyed"} : conn' = [conn EXCEPT ![client] = c]
    /\ sseClients' = emitToListeners(sseClients, client, 1)
    /\ Registry("error", "", client)
    /\ DataUnchanged
    /\ UNCHANGED listeners

\* The setInterval callback of initializeSSE.
Sweep ==
    /\ AtRest
    /\ enableSSE
    /\ sseClients' = cleanupDeadConnections(sseClients)
    /\ Registry("cleanupDeadConnections", "", "")
    /\ DataUnchanged
    /\ UNCHANGED <<listeners, conn>>

Broadcast(channel, eventType, payload) ==
    /\ AtRest
    /\ \E failAt \in FailAts({channel}) :
        \E st \in {broadcastToChannel([m |-> sseClients, out |-> NoWrites, em |-> <<>>],
                                      channel, eventType, PayloadValue(payload), failAt)} :
            /\ sseClients' = st.m
            /\ written' = st.out
            /\ emitted' = st.em
            /\ before' = sseClients
            /\ call' = [Idle("broadcastToChannel") EXCEPT
                            !.channels = <<channel>>, !.hasChannels = TRUE,
                            !.eventType = eventType, !.payload = payload, !.failAt = failAt]
            /\ outcome' = ReturnedValue("")
            /\ DataUnchanged
            /\ UNCHANGED <<listeners, conn>>

BroadcastMany(channels, eventType, payload) ==
    /\ AtRest
    /\ \E failAt \in FailAts(Range(channels)) :
        \E st \in {broadcastToChannels([m |-> sseClients, out |-> NoWrites, em |-> <<>>],
                                       channels, eventType, PayloadValue(payload), failAt)} :
            /\ sseClients' = st.m
            /\ written' = st.out
            /\ emitted' = st.em
            /\ before' = sseClients
            /\ call' = [Idle("broadcastToChannels") EXCEPT
                            !.channels = channels, !.hasChannels = TRUE,
                            !.eventType = eventType, !.payload = payload, !.failAt = failAt]
            /\ outcome' = ReturnedValue("")
            /\ DataUnchanged
            /\ UNCHANGED <<listeners, conn>>

Next ==
    \/ \E channel \in Channels, client \in Handles :
          AddSSEClient(channel, client, MaxSubscribes)
    \/ \E channel \in Channels, client \in Handles : RemoveSSEClient(channel, client)
    \/ \E client \in Handles : ConnEnd(client)
    \/ \E client \in Handles : ConnDestroy(client)
    \/ \E client \in Handles : CloseEvent(client)
    \/ \E client \in Handles : ErrorEvent(client)
    \/ Sweep
    \/ \E channel \in Channels, eventType \in EventTypes, payload \in PayloadIds :
          Broadcast(channel, eventType, payload)
    \/ \E channels \in ChannelLists, eventType \in EventTypes, payload \in PayloadIds :
          BroadcastMany(channels, eventType, payload)
    \/ Return

Spec == Init /\ [][Next]_vars

\* ------------------------------------------------------------- CRUD actions
RunState ==
    [store |-> store, nextId |-> nextId, outcome |-> NoOutcome, m |-> sseClients, out |-> NoWrites,
     em |-> <<>>]

\* The run state r a CRUD operation leaves becomes the next state.
Ran(ran, record) ==
    /\ AtRest
    /\ \E r \in {ran} :
       /\ store' = r.store
       /\ nextId' = r.nextId
       /\ sseClients' = r.m
       /\ written' = r.out
       /\ emitted' = r.em
       /\ outcome' = r.outcome
    /\ before' = sseClients
    /\ call' = record
    /\ UNCHANGED <<Fixed, listeners, conn, pending>>

\* What a CRUD call can write to: its channel list and, for create, "*".
Targets(ch) == Range(ch.list) \cup {"*"}

Create(data, ch, fail, ids) ==
    /\ AtRest
    /\ nextId \in ids
    /\ \E failAt \in FailAts(Targets(ch)) :
          Ran(create(RunState, data, ch.has, ch.list, failAt, fail),
              [Idle("create") EXCEPT !.channels = ch.list, !.hasChannels = ch.has,
                                     !.eventType = "created", !.payload = "row",
                                     !.failAt = failAt, !.fail = fail])

UpdateById(id, data, ch, fail) ==
    /\ AtRest
    /\ \E failAt \in FailAts(Targets(ch)) :
        Ran(updateById(RunState, id, data, ch.has, ch.list, failAt, fail),
            [Idle("updateById") EXCEPT !.channels = ch.list, !.hasChannels = ch.has,
                                       !.eventType = "updated", !.payload = "row",
                                       !.failAt = failAt, !.id = id, !.fail = fail])

DeleteById(id, ch, fail) ==
    /\ AtRest
    /\ \E failAt \in FailAts(Targets(ch)) :
        Ran(deleteById(RunState, id, ch.has, ch.list, failAt, fail),
            [Idle("deleteById") EXCEPT !.channels = ch.list, !.hasChannels = ch.has,
                                       !.eventType = "deleted", !.payload = "row",
                                       !.failAt = failAt, !.id = id, !.fail = fail])

FindById(id, fail) ==
    Ran(findById(RunState, id, fail), [Idle("findById") EXCEPT !.id = id, !.fail = fail])

GenerateUniqueSlug(title, excludeId, rows, fail) ==
    Ran(generateUniqueSlug(RunState, title, excludeId, rows, fail),
        [Idle("generateUniqueSlug") EXCEPT !.payload = title, !.excludeId = excludeId,
                                           !.rows = rows, !.fail = fail])

InitCrud ==
    /\ enableSSE \in BOOLEAN
    /\ enableSoftDelete \in BOOLEAN
    /\ store = EmptyMap
    /\ nextId = 1
    /\ outcome = NoOutcome
    /\ sseClients = EmptyMap
    /\ listeners = [ch \in Channels |-> [h \in Handles |-> 0]]
    /\ conn = [h \in Handles |-> "open"]
    /\ call = Idle("idle")
    /\ before = EmptyMap
    /\ written = NoWrites
    /\ emitted = <<>>
    /\ defaultPageSize = 10
    /\ maxPageSize = 1000
    /\ pending = NoPending
    /\ modules = <<>>
    /\ runs = NoRuns
    /\ process = NotStarted

NextCrud ==
    \/ \E channel \in Channels, client \in Handles :
          AddSSEClient(channel, client, MaxCrudSubscribes)
    \/ \E client \in Handles : ConnDestroy(client)
    \/ \E data \in CreateInputs, ch \in CrudChannels, fail \in StoreFailures :
          Create(data, ch, fail, TableIds)
    \/ \E id \in RowIds, data \in UpdateInputs, ch \in CrudChannels, fail \in StoreFailures :
          UpdateById(id, data, ch, fail)
    \/ \E id \in RowIds, ch \in CrudChannels, fail \in StoreFailures :
          DeleteById(id, ch, fail)
    \/ \E id \in RowIds, fail \in StoreFailures : FindById(id, fail)
    \/ \E title \in Titles, rows \in CrudSlugTables, fail \in StoreFailures :
          GenerateUniqueSlug(title, "", rows, fail)
    \/ Return

SpecCrud == InitCrud /\ [][NextCrud]_vars

\* ------------------------------------------------------------- read actions
\* The ids the table's sequence hands out where reads are checked.
ReadTableIds == {1, 2}

ReadCreateInputs == {[email |-> "a", views |-> 0]}

NoChannels == [has |-> FALSE, list |-> <<>>]

\* The filters a caller passes; the last two ask for soft-deleted rows.
ReadFilters == {EmptyMap, [id |-> 1], [email |-> "a"], [deletedAt |-> Now], [isDeleted |-> TRUE]}

FindManyFilters == {EmptyMap, [deletedAt |-> Now]}

Paginations ==
    {NoPagination,
     [hasPage |-> TRUE, page |-> 1, hasLimit |-> TRUE, limit |-> 1],
     [hasPage |-> TRUE, page |-> 2, hasLimit |-> TRUE, limit |-> 1]}

\* The rows the store may answer a findFirst with: 0 when none matches.
Picks(where) == IF Found(store, where) = {} THEN {0} ELSE Found(store, where)

\* Reads other than findMany change nothing, so they are taken while no
\* findMany call is between its two store calls.
FindOne(filters, fail) ==
    /\ AtRest
    /\ ~pending.active
    /\ \E pick \in Picks(buildWhereClause(filters)) :
          Ran(findOne(RunState, filters, pick, fail),
              [Idle("findOne") EXCEPT !.filters = filters, !.id = pick, !.fail = fail])

Exists(filters, fail) ==
    /\ AtRest
    /\ ~pending.active
    /\ Ran(exists(RunState, filters, fail),
           [Idle("exists") EXCEPT !.filters = filters, !.fail = fail])

CountRows(filters, fail) ==
    /\ AtRest
    /\ ~pending.active
    /\ Ran(count(RunState, filters, fail),
           [Idle("count") EXCEPT !.filters = filters, !.fail = fail])

ReadById(id, fail) ==
    /\ ~pending.active
    /\ FindById(id, fail)

\* findMany is called and the store answers the first of its two calls.
FindManyStart(filters, pagination, first) ==
    /\ AtRest
    /\ ~pending.active
    /\ pending' = [first |-> first,
                   data |-> IF first = "data"
                            THEN findManyData(store, filters, pagination, "").data ELSE <<>>,
                   total |-> IF first = "count"
                             THEN findManyCount(store, filters, "").total ELSE 0,
                   filters |-> filters,
                   pagination |-> pagination,
                   active |-> TRUE]
    /\ UNCHANGED <<Fixed, store, nextId, outcome, sseClients, listeners, conn,
                   call, before, written, emitted>>

\* The store answers the other call, or fails, and findMany returns.
FindManyFinish(fail) ==
    /\ AtRest
    /\ pending.active
    /\ LET d == IF pending.first = "data" /\ fail = ""
                THEN [ok |-> TRUE, data |-> pending.data, code |-> "", error |-> NoError]
                ELSE findManyData(store, pending.filters, pending.pagination, fail)
           c == IF pending.first = "count" /\ fail = ""
                THEN [ok |-> TRUE, code |-> "", error |-> NoError, total |-> pending.total]
                ELSE findManyCount(store, pending.filters, fail)
       IN  \E r \in {findMany(RunState, d, c, pending.pagination)} :
              outcome' = r.outcome
    /\ call' = [Idle("findMany") EXCEPT !.filters = pending.filters,
                                        !.pagination = pending.pagination,
                                        !.first = pending.first, !.fail = fail]
    /\ pending' = NoPending
    /\ before' = sseClients
    /\ written' = NoWrites
    /\ emitted' = <<>>
    /\ UNCHANGED <<Fixed, store, nextId, sseClients, listeners, conn>>

InitRead ==
    /\ enableSSE = FALSE
    /\ enableSoftDelete \in BOOLEAN
    /\ store = EmptyMap
    /\ nextId = 1
    /\ outcome = NoOutcome
    /\ sseClients = EmptyMap
    /\ listeners = [ch \in Channels |-> [h \in Handles |-> 0]]
    /\ conn = [h \in Handles |-> "open"]
    /\ call = Idle("idle")
    /\ before = EmptyMap
    /\ written = NoWrites
    /\ emitted = <<>>
    /\ defaultPageSize = 10
    /\ maxPageSize = 1000
    /\ pending = NoPending
    /\ modules = <<>>
    /\ runs = NoRuns
    /\ process = NotStarted

NextRead ==
    \/ \E data \in ReadCreateInputs, fail \in StoreFailures :
          Create(data, NoChannels, fail, ReadTableIds)
    \/ \E id \in ReadTableIds, data \in UpdateInputs : UpdateById(id, data, NoChannels, "")
    \/ \E id \in ReadTableIds : DeleteById(id, NoChannels, "")
    \/ \E id \in ReadTableIds, fail \in StoreFailures : ReadById(id, fail)
    \/ \E filters \in ReadFilters, fail \in StoreFailures : FindOne(filters, fail)
    \/ \E filters \in ReadFilters, fail \in StoreFailures : Exists(filters, fail)
    \/ \E filters \in ReadFilters, fail \in StoreFailures : CountRows(filters, fail)
    \/ \E filters \in FindManyFilters, pagination \in Paginations, first \in {"data", "count"} :
          FindManyStart(filters, pagination, first)
    \/ \E fail \in StoreFailures : FindManyFinish(fail)
    \/ Return

SpecRead == InitRead /\ [][NextRead]_vars

\* ------------------------------------------------------------- pure operations
\* normalizePagination, buildPaginationResult and applyFilters read the
\* options and their arguments only.
PageNumbers == (-1)..(MaxPageSizeBound + 2)

Optional(has, n) == [n |-> n, has |-> has]

OptionalNumbers == {Optional(FALSE, 0)} \cup {Optional(TRUE, n) : n \in PageNumbers}

PaginationInputs ==
    {[hasPage |-> p.has, page |-> p.n, hasLimit |-> l.has, limit |-> l.n] :
        p \in OptionalNumbers, l \in OptionalNumbers}

QueryKeys == FilterKeys \cup {"sort"}

QueryValues == {Num(1), Undefined}

QueryEntries == {<<k, v>> : k \in QueryKeys, v \in QueryValues}

\* The entries of a query object: no key twice.
Queries ==
    {q \in UNION {[1..n -> QueryEntries] : n \in 0..MaxQueryKeys} :
        \A i, j \in 1..Len(q) : q[i][1] = q[j][1] => i = j}

Pure(op, value) ==
    /\ AtRest
    /\ call' = op
    /\ outcome' = ReturnedValue(value)
    /\ before' = sseClients
    /\ written' = NoWrites
    /\ emitted' = <<>>
    /\ DataUnchanged
    /\ UNCHANGED <<sseClients, listeners, conn>>

NormalizePagination(pagination) ==
    Pure([Idle("normalizePagination") EXCEPT !.pagination = pagination],
         normalizePagination(pagination))

BuildPaginationResult(total, pagination) ==
    Pure([Idle("buildPaginationResult") EXCEPT !.pagination = pagination, !.total = total],
         buildPaginationResult(<<>>, total, normalizePagination(pagination)))

ApplyFilters(query) ==
    Pure([Idle("applyFilters") EXCEPT !.query = query], applyFilters(query))

InitPure ==
    /\ enableSSE = FALSE
    /\ enableSoftDelete = FALSE
    /\ store = EmptyMap
    /\ nextId = 1
    /\ outcome = NoOutcome
    /\ sseClients = EmptyMap
    /\ listeners = [ch \in Channels |-> [h \in Handles |-> 0]]
    /\ conn = [h \in Handles |-> "open"]
    /\ call = Idle("idle")
    /\ before = EmptyMap
    /\ written = NoWrites
    /\ emitted = <<>>
    /\ defaultPageSize \in PageNumbers
    /\ maxPageSize \in 1..MaxPageSizeBound
    /\ pending = NoPending
    /\ modules = <<>>
    /\ runs = NoRuns
    /\ process = NotStarted

NextPure ==
    \/ \E pagination \in PaginationInputs : NormalizePagination(pagination)
    \/ \E total \in 0..(MaxPageSizeBound + 2), pagination \in PaginationInputs :
          BuildPaginationResult(total, pagination)
    \/ \E query \in Queries : ApplyFilters(query)
    \/ Return

SpecPure == InitPure /\ [][NextPure]_vars

\* generateUniqueSlug reads its arguments and one answer of the store, over
\* a table that has a slug column.
NextSlug ==
    \/ \E title \in Titles, excludeId \in SlugRowIds \cup {""}, rows \in SlugTables,
          fail \in StoreFailures :
          GenerateUniqueSlug(title, excludeId, rows, fail)
    \/ Return

SpecSlug == Init /\ [][NextSlug]_vars

\* ------------------------------------------------------------- application actions
ServiceVars ==
    <<enableSSE, enableSoftDelete, store, nextId, outcome, sseClients, listeners, conn,
      call, before, written, emitted, defaultPageSize, maxPageSize, pending>>

Started(next, run) ==
    [i |-> next.i, pc |-> next.pc, log |-> next.log, registered |-> run.registered]

\* registerModule(module)
RegisterModule(kind) ==
    /\ Len(modules) < MaxModules
    /\ modules' = Append(modules, Module(Len(modules) + 1, kind))
    /\ UNCHANGED <<ServiceVars, runs>>

\* shutdown() is called; the calls are numbered in the order they are made.
ShutdownCall(r) ==
    /\ runs[r].pc = "idle"
    /\ \A q \in ShutdownRuns : q < r => runs[q].pc # "idle"
    /\ runs' = [runs EXCEPT ![r] = Started(shutdown(modules),
                                           [NotCalled EXCEPT !.registered = modules])]
    /\ UNCHANGED <<ServiceVars, modules>>

\* The promise of the onShutdown() a call awaits settles.
OnShutdownSettles(r) ==
    /\ runs[r].pc = "module"
    /\ runs' = [runs EXCEPT ![r] = Started(onShutdownSettled(modules, runs[r]), runs[r])]
    /\ UNCHANGED <<ServiceVars, modules>>

\* The promise of the context.shutdown() a call awaits settles.
ContextShutdownSettles(r, ok) ==
    /\ runs[r].pc = "context"
    /\ runs' = [runs EXCEPT ![r] = Started(contextShutdownSettled(runs[r], ok), runs[r])]
    /\ UNCHANGED <<ServiceVars, modules>>

NextApp ==
    \/ \E kind \in OnShutdownKinds : RegisterModule(kind) /\ UNCHANGED process
    \/ \E r \in ShutdownRuns : ShutdownCall(r) /\ UNCHANGED process
    \/ \E r \in ShutdownRuns : OnShutdownSettles(r) /\ UNCHANGED process
    \/ \E r \in ShutdownRuns, ok \in BOOLEAN :
          ContextShutdownSettles(r, ok) /\ UNCHANGED process

SpecApp == Init /\ [][NextApp]_vars

\* ---- The process: bootstrap, one signal, server.close, process.exit ----

Running == ~process.exited

Listening(sig, listener) ==
    \E k \in 1..Len(process.handlers[sig]) : process.handlers[sig][k] = listener

\* bootstrap() runs to its end: spark() listens, then bootstrap listens.
Bootstrap ==
    /\ Running
    /\ process.handlers = NotStarted.handlers
    /\ process' = bootstrap(process)
    /\ UNCHANGED <<ServiceVars, modules, runs>>

\* A signal is delivered to the started process, once: its listeners run
\* in the order of their registration.  The listener of spark() closes
\* the server and arms the timer; the listener of bootstrap calls
\* shutdown(app), which runs app.shutdown() up to its first await.
Signal(sig) ==
    /\ Running
    /\ process.signal = ""
    /\ process.handlers[sig] # <<>>
    /\ IF Listening(sig, "bootstrap")
       THEN /\ \E r \in ShutdownRuns : ShutdownCall(r)
            /\ process' = [sparkListener(process) EXCEPT
                               !.signal = sig, !.callers = Append(@, "bootstrap")]
       ELSE /\ process' = [sparkListener(process) EXCEPT !.signal = sig]
            /\ UNCHANGED <<ServiceVars, modules, runs>>

\* The server has closed: the callback of server.close calls this.shutdown().
ServerClosed ==
    /\ Running
    /\ process.closing
    /\ \E r \in ShutdownRuns : ShutdownCall(r)
    /\ process' = [process EXCEPT !.closing = FALSE, !.callers = Append(@, "spark")]

\* An awaited onShutdown() settles; when the call of shutdown() ends with
\* it, the listener that awaits the call exits the process.
ModuleSettles(r) ==
    /\ Running
    /\ OnShutdownSettles(r)
    /\ process' = exitAfter(process, runs'[r])

\* The awaited context.shutdown() settles and the listener exits the process.
ContextSettles(r, ok) ==
    /\ Running
    /\ ContextShutdownSettles(r, ok)
    /\ process' = exitAfter(process, runs'[r])

\* The 30 s timer of spark()'s listener fires: process.exit(1).
ForcedShutdown ==
    /\ Running
    /\ process.timer
    /\ process' = [process EXCEPT !.exited = TRUE, !.exitCode = 1]
    /\ UNCHANGED <<ServiceVars, modules, runs>>

NextProcess ==
    \/ \E kind \in OnShutdownKinds : Running /\ RegisterModule(kind) /\ UNCHANGED process
    \/ Bootstrap
    \/ \E sig \in Signals : Signal(sig)
    \/ ServerClosed
    \/ \E r \in ShutdownRuns : ModuleSettles(r)
    \/ \E r \in ShutdownRuns, ok \in BOOLEAN : ContextSettles(r, ok)
    \/ ForcedShutdown

SpecProcess == Init /\ [][NextProcess]_vars

\* ------------------------------------------------------------- properties
\* What the last operation's record says of a client.  The connection
\* states do not change while an operation runs.
EventLine(eventType) == "event: " \o eventType \o "\n"

\* The JSON text of the payloads that have one, written out by hand.
JSONText == [p \in {"id5"} |-> "{\"id\":5}"]

DataLine(payload) == "data: " \o JSONText[payload] \o "\n\n"

DeadConn(h) == conn[h] # "open"

Throws(h) == conn[h] = "open" /\ call.failAt[h] # 0

Dead(h) == DeadConn(h) \/ Throws(h)

Live(h) == ~Dead(h)

RegisteredBefore(ch, h) == Count(MapGet(before, ch), h)

RegisteredAfter(ch, h) == Count(MapGet(sseClients, ch), h)

\* The client's stream holds the event: its event line, then the data line
\* with the payload's JSON text.
ReceivedEvent(h) ==
    /\ call.payload \in DOMAIN JSONText
    /\ \E i \in 1..(Len(written[h]) - 1) :
          /\ written[h][i] = EventLine(call.eventType)
          /\ written[h][i + 1] = DataLine(call.payload)

NoDuplicates(s) == \A i, j \in 1..Len(s) : s[i] = s[j] => i = j

\* C1: after broadcast(channel, eventType, payload) every live handle of the
\* channel has received the event, no destroyed/ended handle was written to,
\* and no dead handle is still registered under the channel.
C1_BroadcastDeliversAndPrunes ==
    call.op = "broadcastToChannel" =>
        \A h \in Handles :
            /\ (RegisteredBefore(call.channels[1], h) > 0 /\ Live(h)) => ReceivedEvent(h)
            /\ DeadConn(h) => written[h] = <<>>
            /\ (RegisteredBefore(call.channels[1], h) > 0 /\ Dead(h))
                  => RegisteredAfter(call.channels[1], h) = 0

\* C2: after a broadcast on a channel of N distinct live handles and no dead
\* one, each handle's stream holds exactly the one frame
\* event: <eventType>\n data: <JSON of payload>\n\n, and the channel still
\* counts N handles.
C2_ExactlyOneFrameEach ==
    (/\ call.op = "broadcastToChannel"
     /\ NoDuplicates(MapGet(before, call.channels[1]))
     /\ \A h \in Range(MapGet(before, call.channels[1])) : Live(h))
    => /\ \A h \in Range(MapGet(before, call.channels[1])) :
             /\ call.payload \in DOMAIN JSONText
             /\ written[h] = <<EventLine(call.eventType), DataLine(call.payload)>>
       /\ getChannelClientCount(sseClients, call.channels[1])
             = Len(MapGet(before, call.channels[1]))

\* C3: in every reachable state no channel that getActiveChannels() lists
\* has an empty handle collection.
C3_NoEmptyChannelListed ==
    \A ch \in getActiveChannels(sseClients) : getChannelClientCount(sseClients, ch) > 0

\* C3 witness: removeSSEClient has just removed the last handle of a
\* channel, and the channel is no longer listed.
C3_Witness ==
    /\ call.op = "removeSSEClient"
    /\ MapGet(before, call.channels[1]) = <<call.client>>
    /\ call.channels[1] \notin getActiveChannels(sseClients)

\* C4 as claimed: one broadcast writes the event at most once to each live
\* handle, whatever subscribe calls came before.
C4_AtMostOncePerHandle ==
    call.op = "broadcastToChannel" =>
        \A h \in Handles :
            Live(h) => Count(written[h], EventLine(call.eventType)) <= 1

\* C4 as amended: one broadcast writes the event to a handle at most once
\* per registration of the handle under the channel: a handle registered k
\* times gets at most k event lines and at most k data lines.
C4_AtMostOncePerRegistration ==
    call.op = "broadcastToChannel" =>
        \A h \in Handles :
            /\ Count(written[h], EventLine(call.eventType))
                  <= RegisteredBefore(call.channels[1], h)
            /\ Len(written[h]) - Count(written[h], EventLine(call.eventType))
                  <= RegisteredBefore(call.channels[1], h)

\* C4 witness: a live handle subscribed twice to the channel was sent the
\* event twice by one broadcast.
C4_Witness ==
    /\ call.op = "broadcastToChannel"
    /\ \E h \in Handles :
          /\ RegisteredBefore(call.channels[1], h) = 2
          /\ written[h] = <<EventLine("created"), DataLine("id5"),
                            EventLine("created"), DataLine("id5")>>

\* Delivery on the channel fails: a handle's write throws, or all its
\* handles are dead.
DeliveryFails(ch) ==
    \/ \E h \in Range(MapGet(before, ch)) : Throws(h)
    \/ /\ MapGet(before, ch) # <<>>
       /\ \A h \in Range(MapGet(before, ch)) : Dead(h)

\* C5: when delivery on one channel of a broadcastMany list fails, every
\* live handle of each other channel of the list still receives the event,
\* and no exception leaves broadcastMany.
C5_ChannelsIsolated ==
    call.op = "broadcastToChannels" =>
        /\ outcome.kind # "threw"
        /\ \A i \in 1..Len(call.channels) :
              DeliveryFails(call.channels[i]) =>
                  \A j \in 1..Len(call.channels) \ {i} :
                      \A h \in Handles :
                          (RegisteredBefore(call.channels[j], h) > 0 /\ Live(h))
                              => ReceivedEvent(h)

\* The code the store call of the last operation was rejected with, "" when
\* the store carried it out.
StoreRejection == outcome.storeCode

EmittedTo == {emitted[i][1] : i \in 1..Len(emitted)}

\* C6: a create that succeeds in the store with enableSSE on emits created
\* to every channel of broadcastChannels and to "*", with or without a
\* channel list; a create the store rejects emits nothing.
C6_CreateEmitsListAndWildcard ==
    call.op = "create" =>
        /\ (StoreRejection = "" /\ enableSSE) =>
              /\ outcome.kind = "returned"
              /\ \A ch \in Range(call.channels) : <<ch, "created">> \in Range(emitted)
              /\ <<"*", "created">> \in Range(emitted)
        /\ StoreRejection # "" => (emitted = <<>> /\ written = NoWrites)

\* C6 witness: a create without a channel list succeeded and a handle of
\* "*" was sent the created event.
C6_Witness ==
    /\ call.op = "create"
    /\ ~call.hasChannels
    /\ outcome.kind = "returned"
    /\ emitted = << <<"*", "created">> >>
    /\ \E h \in Handles : Len(written[h]) = 2 /\ written[h][1] = EventLine("created")

\* C7: updateById and deleteById emit updated / deleted only to the
\* channels of broadcastChannels: a handle registered under none of them
\* (one subscribed to "*" alone, say) is sent nothing, and without a channel
\* list nothing is emitted.
C7_UpdateDeleteExplicitOnly ==
    call.op \in {"updateById", "deleteById"} =>
        /\ \A i \in 1..Len(emitted) :
              /\ call.hasChannels
              /\ emitted[i][1] \in Range(call.channels)
              /\ emitted[i][2] = (IF call.op = "updateById" THEN "updated" ELSE "deleted")
        /\ \A h \in Handles :
              (\A ch \in Range(call.channels) : RegisteredBefore(ch, h) = 0)
                  => written[h] = <<>>
        /\ ~call.hasChannels => emitted = <<>>

\* C7 witness: an update broadcast to "orders" reached the handle of
\* "orders" and sent nothing to the live handle subscribed to "*" alone.
C7_Witness ==
    /\ call.op = "updateById"
    /\ call.channels = <<"orders">>
    /\ outcome.kind = "returned"
    /\ \E h \in Handles :
          /\ RegisteredBefore("*", h) > 0
          /\ RegisteredBefore("orders", h) = 0
          /\ Live(h)
          /\ written[h] = <<>>
    /\ \E h \in Handles : Len(written[h]) = 2 /\ written[h][1] = EventLine("updated")

\* C8: an updateById or deleteById (soft-delete on or off) whose store call
\* fails with P2025 throws a NotFound error; with any other code it throws
\* a Database error.
C8_NotFoundMapping ==
    (call.op \in {"updateById", "deleteById"} /\ StoreRejection # "") =>
        /\ outcome.kind = "threw"
        /\ outcome.error.name =
              (IF StoreRejection = "P2025" THEN "NotFoundError" ELSE "DatabaseError")

\* C9: whatever operation's store call fails, the caller gets a NotFound or
\* a Database error, never the store driver's own error.
C9_NoRawStoreError ==
    outcome.kind = "threw" => outcome.error.name \in {"NotFoundError", "DatabaseError"}

\* A write of the last operation threw: a client whose writes throw was
\* registered under a channel the operation emitted to.
WriteThrew ==
    \E h \in Handles : Throws(h) /\ \E ch \in EmittedTo : RegisteredBefore(ch, h) > 0

\* The record the last operation returned is the one the store now holds
\* (or, after a hard delete, the one it dropped).
ReturnedMutatedRecord ==
    /\ outcome.kind = "returned"
    /\ IF call.op = "deleteById" /\ ~enableSoftDelete
       THEN outcome.row.id = call.id /\ call.id \notin DOMAIN store
       ELSE outcome.row.id \in DOMAIN store /\ store[outcome.row.id] = outcome.row

\* C10: when a handle's write throws while create, updateById or deleteById
\* broadcasts, the operation still returns the mutated record and raises
\* nothing, and no handle but a failing one is pruned.
C10_BroadcastFailureContained ==
    (/\ call.op \in {"create", "updateById", "deleteById"}
     /\ StoreRejection = ""
     /\ WriteThrew)
    => /\ ReturnedMutatedRecord
       /\ \A h \in Handles, ch \in Channels :
             Live(h) => RegisteredAfter(ch, h) = RegisteredBefore(ch, h)

\* The rows not marked deleted that meet the caller's own conditions.
Alive(s) == {i \in DOMAIN s : ~s[i].isDeleted}

AliveMatching(s, filters) ==
    {i \in Alive(s) : \A f \in DOMAIN filters \ {"deletedAt"} : s[i][f] = filters[f]}

C13_PaginationResult ==
    (call.op = "findMany" /\ outcome.kind = "returned") =>
        LET v == outcome.value
        IN  /\ v.total >= 0 /\ v.limit >= 1 /\ v.page >= 1
            /\ v.totalPages * v.limit >= v.total
            /\ (v.totalPages - 1) * v.limit < v.total
            /\ v.hasNext = (v.page < v.totalPages)
            /\ v.hasPrevious = (v.page > 1)
            /\ (v.page = 1 /\ v.total = 0) =>
                  (~v.hasNext /\ ~v.hasPrevious /\ v.data = <<>>)

\* defaultPageSize brought into 1..maxPageSize.
ClampedDefault ==
    IF defaultPageSize < 1 THEN 1
    ELSE IF defaultPageSize > maxPageSize THEN maxPageSize ELSE defaultPageSize

\* C12: for every page and limit a caller passes (left out, zero, negative
\* or above maxPageSize) and every defaultPageSize, with maxPageSize >= 1,
\* normalizePagination yields page >= 1, 1 <= limit <= maxPageSize and
\* offset = (page-1)*limit >= 0; the limit is defaultPageSize clamped when
\* left out and maxPageSize when the request exceeds it.
C12_NormalizedPagination ==
    call.op = "normalizePagination" =>
        LET p == call.pagination
            r == outcome.value
        IN  /\ r.page >= 1
            /\ r.limit >= 1 /\ r.limit <= maxPageSize
            /\ r.offset = (r.page - 1) * r.limit
            /\ r.offset >= 0
            /\ ~p.hasLimit => r.limit = ClampedDefault
            /\ (p.hasLimit /\ p.limit > maxPageSize) => r.limit = maxPageSize
            /\ (p.hasLimit /\ p.limit >= 1 /\ p.limit <= maxPageSize) => r.limit = p.limit
            /\ (p.hasPage /\ p.page >= 1) => r.page = p.page
            /\ (~p.hasPage \/ p.page < 1) => r.page = 1

\* C12 witness: a request for page 2 with a limit above maxPageSize was
\* given maxPageSize rows from offset maxPageSize on.
C12_Witness ==
    /\ call.op = "normalizePagination"
    /\ call.pagination.hasLimit
    /\ call.pagination.limit > maxPageSize
    /\ maxPageSize > 1
    /\ outcome.value = [page |-> 2, limit |-> maxPageSize, offset |-> maxPageSize]

\* The conditions of a predicate: its leaves, each with the path of keys
\* that leads to it.
RECURSIVE Conditions(_, _)
Conditions(v, path) ==
    IF v[1] = "obj"
    THEN UNION {Conditions(v[2][i][2], Append(path, v[2][i][1])) : i \in 1..Len(v[2])}
    ELSE {<<path, v>>}

\* The entries of the query that applyFilters turns into a fragment.
Matched(query) ==
    {i \in 1..Len(query) : query[i][2] # Undefined /\ query[i][1] \in FilterKeys}

Reordered(query, perm) == [i \in 1..Len(query) |-> query[perm[i]]]

\* C18: the predicate applyFilters(query) returns keeps the conditions of
\* every matched key's fragment, at whatever depth two fragments meet, and
\* is the same predicate for every order of the query's keys.
C18_DeepMergeAnyOrder ==
    call.op = "applyFilters" =>
        /\ \A i \in Matched(call.query) :
              Conditions(filterMap(call.query[i][1], call.query[i][2]), <<>>)
                  \subseteq Conditions(outcome.value, <<>>)
        /\ \A perm \in Permutations(1..Len(call.query)) :
              Conditions(applyFilters(Reordered(call.query, perm)), <<>>)
                  = Conditions(outcome.value, <<>>)

\* What slugify makes of the titles, written out by hand.
BaseSlugOf == [t \in {"Post", "Hello World!"} |-> IF t = "Post" THEN "post" ELSE "hello-world"]

\* The slugs held by the records other than excludeId.
OtherSlugs == {r.slug : r \in {x \in call.rows : call.excludeId = "" \/ x.id # call.excludeId}}

Suffixed(base, k) == base \o "-" \o ToString(k)

\* C14: generateUniqueSlug(title, excludeId) returns the base slug when no
\* record other than excludeId holds it, and otherwise base-k for the
\* smallest k >= 1 for which no such record holds base-k; what it returns is
\* never a slug one of those records holds.
C14_SmallestFreeSlug ==
    (call.op = "generateUniqueSlug" /\ outcome.kind = "returned") =>
        LET base == BaseSlugOf[call.payload]
            slug == outcome.value
        IN  /\ slug \notin OtherSlugs
            /\ base \notin OtherSlugs => slug = base
            /\ base \in OtherSlugs =>
                  \E k \in 1..(Cardinality(call.rows) + 1) :
                      /\ slug = Suffixed(base, k)
                      /\ \A j \in 1..(k - 1) : Suffixed(base, j) \in OtherSlugs

\* C14 witness: with "post" and "post-1" held by other records, the title
\* Post was given "post-2".
C14_Witness ==
    /\ call.op = "generateUniqueSlug"
    /\ call.payload = "Post"
    /\ {"post", "post-1"} \subseteq OtherSlugs
    /\ call.excludeId # ""
    /\ outcome.value = "post-2"

IsOpen(h) == conn[h] = "open"

\* C15: a sweep leaves each channel with its live handles, in their order
\* and number, and none of its destroyed or ended handles; a channel left
\* without handles is deleted; sweeping the result again changes nothing.
C15_SweepRemovesExactlyDead ==
    call.op = "cleanupDeadConnections" =>
        /\ DOMAIN sseClients = {ch \in DOMAIN before : \E h \in Range(before[ch]) : IsOpen(h)}
        /\ \A ch \in DOMAIN sseClients : sseClients[ch] = SelectSeq(before[ch], IsOpen)
        /\ cleanupDeadConnections(sseClients) = sseClients

\* C15 witness: a sweep took two dead registrations out of a channel that
\* keeps a live handle, or emptied and deleted one channel while shortening
\* another.
C15_Witness ==
    /\ call.op = "cleanupDeadConnections"
    /\ \E ch \in DOMAIN sseClients :
          /\ Len(before[ch]) > Len(sseClients[ch])
          /\ \/ Len(before[ch]) = Len(sseClients[ch]) + 2
             \/ DOMAIN before # DOMAIN sseClients

\* C16: once the close or the error event of a handle has been processed,
\* the handle is registered under no channel, however often it was
\* subscribed and whatever ran before.
C16_EventUnregisters ==
    call.op \in {"close", "error"} =>
        \A ch \in Channels : RegisteredAfter(ch, call.client) = 0

\* C16 witness: the close event of a handle subscribed twice to one channel
\* and once to the other left it registered under neither.
C16_Witness ==
    /\ call.op = "close"
    /\ \E ch \in Channels : RegisteredBefore(ch, call.client) = 2
    /\ \E ch \in Channels : RegisteredBefore(ch, call.client) = 1
    /\ \A ch \in Channels : RegisteredAfter(ch, call.client) = 0

DeadRegistered == \E ch \in DOMAIN before : \E h \in Range(before[ch]) : ~IsOpen(h)

\* C17: a removal of a handle that is not registered (any more) changes
\* nothing: removeSSEClient for a handle the channel does not hold, a close
\* or error event of a handle no channel holds and a sweep that finds no
\* dead handle leave the registry as it was; a removal aimed at one handle
\* never changes how often another is registered; none raises an error.
C17_RemovalOfAbsentIsNoOp ==
    /\ (call.op = "removeSSEClient" /\ RegisteredBefore(call.channels[1], call.client) = 0)
          => sseClients = before
    /\ (call.op \in {"close", "error"}
          /\ \A ch \in Channels : RegisteredBefore(ch, call.client) = 0)
          => sseClients = before
    /\ (call.op = "cleanupDeadConnections" /\ ~DeadRegistered) => sseClients = before
    /\ call.op \in {"removeSSEClient", "close", "error"} =>
          /\ outcome.kind # "threw"
          /\ \A h \in Handles \ {call.client}, ch \in Channels :
                RegisteredAfter(ch, h) = RegisteredBefore(ch, h)
    /\ call.op = "removeSSEClient" =>
          \A ch \in Channels \ {call.channels[1]} :
              RegisteredAfter(ch, call.client) = RegisteredBefore(ch, call.client)

\* C17 witness: the close event of a handle that was subscribed, and was
\* taken out of the registry before the event came, left a registry that
\* holds another handle as it was.
C17_Witness ==
    /\ call.op = "close"
    /\ \E ch \in Channels : listeners[ch][call.client] > 0
    /\ \A ch \in Channels : RegisteredBefore(ch, call.client) = 0
    /\ before # EmptyMap
    /\ sseClients = before

\* C19: broadcastToChannel removes a handle only if its connection is
\* destroyed or ended or a write to it threw: whatever the payload, a live
\* handle whose writes succeed is registered under the channel as often
\* after the call as before it.
C19_OnlyDeadOrThrowingPruned ==
    call.op = "broadcastToChannel" =>
        \A h \in Handles :
            (IsOpen(h) /\ call.failAt[h] = 0)
                => RegisteredAfter(call.channels[1], h) = RegisteredBefore(call.channels[1], h)

\* The names of the modules that have an onShutdown, last registered first.
RECURSIVE ReverseHooks(_)
ReverseHooks(mods) ==
    IF mods = <<>> THEN <<>>
    ELSE LET last == mods[Len(mods)]
             rest == ReverseHooks(SubSeq(mods, 1, Len(mods) - 1))
         IN  IF last.onShutdown = "none" THEN rest ELSE <<last.name>> \o rest

IsCall(e) == e[1] = "call"

\* The names of the modules whose onShutdown a log says was called.
Called(log) == [k \in 1..Len(SelectSeq(log, IsCall)) |-> SelectSeq(log, IsCall)[k][2]]

IsPrefix(s, t) == Len(s) <= Len(t) /\ s = SubSeq(t, 1, Len(s))

\* C20: each call of shutdown() calls onShutdown of the modules registered
\* when it was called, last registered first; an onShutdown that rejects or
\* throws is followed by the onShutdown of the modules before it; and the
\* call starts context.shutdown() only when each of those onShutdown calls
\* has resolved or failed.
C20_ShutdownOrder ==
    \A r \in ShutdownRuns :
        LET log == runs[r].log
            expected == ReverseHooks(runs[r].registered)
        IN  /\ IsPrefix(Called(log), expected)
            /\ runs[r].pc \in {"context", "done", "failed"} => Called(log) = expected
            /\ \A k \in 1..Len(log) :
                  /\ IsCall(log[k]) =>
                        \A j \in 1..(k - 1) :
                            IsCall(log[j]) =>
                                \E n \in (j + 1)..(k - 1) :
                                    log[n] \in {<<"ok", log[j][2]>>, <<"error", log[j][2]>>}
                  /\ log[k][1] = "context" =>
                        /\ Called(SubSeq(log, 1, k - 1)) = expected
                        /\ \A j \in 1..(k - 1) :
                              IsCall(log[j]) =>
                                  \E n \in (j + 1)..(k - 1) :
                                      log[n] \in {<<"ok", log[j][2]>>, <<"error", log[j][2]>>}

\* C20 witness: a call of shutdown() over three modules with an onShutdown
\* called the last registered first, went on after the rejection of the
\* second one called, and disconnected the context in the end.
C20_Witness ==
    \E r \in ShutdownRuns :
        /\ runs[r].pc = "done"
        /\ Len(runs[r].registered) = 3
        /\ Called(runs[r].log) = <<"m3", "m2", "m1">>
        /\ \E k \in 1..Len(runs[r].log) :
              /\ runs[r].log[k] = <<"error", "m2">>
              /\ runs[r].log[k + 1] = <<"call", "m1">>

\* The calls of shutdown() made so far.
ShutdownCalls == {r \in ShutdownRuns : runs[r].pc # "idle"}

RECURSIVE Sum(_, _)
Sum(f, S) ==
    IF S = {} THEN 0
    ELSE LET x == CHOOSE y \in S : TRUE IN f[x] + Sum(f, S \ {x})

\* How often all the calls of shutdown() together did e.
Invocations(e) == Sum([r \in ShutdownRuns |-> Count(runs[r].log, e)], ShutdownRuns)

\* C21: after one SIGTERM or SIGINT delivered to the started application,
\* shutdown() is called at most once: the onShutdown of each module and
\* context.shutdown() are invoked at most once, whatever the order in which
\* the listeners of spark() and of bootstrap and their callbacks run.
C21_ShutdownAtMostOnce ==
    process.signal \in {"SIGTERM", "SIGINT"} =>
        /\ Cardinality(ShutdownCalls) <= 1
        /\ Invocations(<<"context", "">>) <= 1
        /\ \A k \in 1..Len(modules) : Invocations(<<"call", modules[k].name>>) <= 1

====
